---- MODULE Spec2Model ----
(***************************************************************************)
(* kas: configuration resolution (closure engine), execution context and  *)
(* the command/macro pipeline of the build plugin.                        *)
(*                                                                         *)
(*   src/kas/config.py   load_configuration_file, create_context, Context *)
(*   src/kas/libcmds.py  Macro and the commands                           *)
(*   src/kas/build.py    Build.run, BuildCommand                          *)
(*                                                                         *)
(* Python dicts are functions whose DOMAIN is the set of present keys.    *)
(* Paths are sequences of path components.                                *)
(***************************************************************************)
EXTENDS Integers, Sequences, FiniteSets, TLC

VARIABLES
    pc,                     \* position of the running invocation
    error,                  \* the exception that ended it, "none" otherwise
    run,                    \* number of the invocation (1 = first)
    args,                   \* argparse namespace of Build.run: task, target, skip
    os_environ,             \* os.environ, the process environment
    ctx,                    \* the Context object (config.py:208-222)
    handler,                \* GlobalIncludes(filepath): answers given so far
    repo_paths,             \* load_configuration_file local (config.py:123)
    missing_repo_names,     \* load_configuration_file local (config.py:126)
    missing_repo_names_old, \* load_configuration_file local (config.py:125)
    last,                   \* what the latest resolver call returned
    passes,                 \* resolver calls of this invocation (saturating)
    passCalls,              \* provider calls of the latest pass, in order
    runCalls,               \* provider calls of this invocation's engine (saturating)
    first,                  \* result of the first invocation's engine
    disk,                   \* working copies, build directory, generated files
    commands,               \* Macro.commands (libcmds.py:42)
    idx,                    \* position of Macro.run's loop (libcmds.py:55)
    executed,               \* names of the commands whose execute was called
    macroCalls,             \* provider calls made by the macro's commands
    start,                  \* ctx and disk when Macro.run was entered
    ret                     \* the latest accessor call on ctx and what it returned

vars == <<pc, error, run, args, os_environ, ctx, handler, repo_paths, missing_repo_names,
          missing_repo_names_old, last, passes, passCalls, runCalls, first,
          disk, commands, idx, executed, macroCalls, start, ret>>

engineVars == <<handler, repo_paths, missing_repo_names,
                missing_repo_names_old, last, passes, passCalls, runCalls>>
macroVars == <<commands, idx, executed, macroCalls, start>>

-----------------------------------------------------------------------------
(* Bounds of the model *)

\* longest missing-repository list the include resolver returns
MaxMissing == 2
\* number of distinct known_repo_paths maps the resolver is asked about
MaxConfigs == 2
\* the pass counter saturates here
MaxPasses == 4
\* the provider-call counter saturates here
MaxCalls == 4
\* number of invocations on the same work directory
MaxRuns == 2
\* longest command list of a free-standing Macro
MaxCommands == 3

-----------------------------------------------------------------------------
(* Python values *)

PyNone == "<None>"
\* None where a path or a url (a sequence of components) is expected
NoPath == <<"<None>">>
EmptyDict == [k \in {} |-> PyNone]

Get(d, k, default) == IF k \in DOMAIN d THEN d[k] ELSE default

\* dict.update
Update(d, e) ==
    [k \in DOMAIN d \cup DOMAIN e |-> IF k \in DOMAIN e THEN e[k] ELSE d[k]]

Min(a, b) == IF a < b THEN a ELSE b

SeqsUpTo(S, n) == UNION {[1..k -> S] : k \in 0..n}

Range(s) == {s[i] : i \in DOMAIN s}

IsPrefix(s, t) == Len(s) <= Len(t) /\ SubSeq(t, 1, Len(s)) = s

\* a target value of the configuration or of --target: None, a str or a list
NoTarget == [kind |-> "none", words |-> <<>>]
StrTarget(w) == [kind |-> "str", words |-> <<w>>]
ListTarget(ws) == [kind |-> "list", words |-> ws]

-----------------------------------------------------------------------------
(* Repository entries of the configuration's repos map *)

RepoNames == {"a", "b"}

\* `name:` with no value in the YAML file
NullEntry == [null |-> TRUE, attrs |-> EmptyDict]
Entry(attrs) == [null |-> FALSE, attrs |-> attrs]
UrlEntry == Entry([url |-> <<"git:", "host", "repo">>])

WorkDir == <<"work">>
ConfigRepoPath == <<"cfgrepo">>

\* repos.py Repo(url, path, refspec, layers) and disable_git_operations()
Repo(url, path, refspec, layers, disabled) ==
    [url |-> url, path |-> path, refspec |-> refspec, layers |-> layers,
     git_operation_disabled |-> disabled]

-----------------------------------------------------------------------------
(* YAML scalars used as layer values, with Python's str() and str.lower() *)

YamlStr(s) == [type |-> "str", repr |-> s]
YamlInt0 == [type |-> "int", repr |-> "0"]
YamlInt1 == [type |-> "int", repr |-> "1"]
YamlFalse == [type |-> "bool", repr |-> "False"]
YamlTrue == [type |-> "bool", repr |-> "True"]
YamlNull == [type |-> "none", repr |-> "None"]

\* str(value)
PyStr(v) == v.repr

\* str.lower() on the strings the model uses
PyLower(s) ==
    CASE s = "Disabled" -> "disabled"
      [] s = "DISABLED" -> "disabled"
      [] s = "Excluded" -> "excluded"
      [] s = "N" -> "n"
      [] s = "No" -> "no"
      [] s = "NO" -> "no"
      [] s = "False" -> "false"
      [] s = "FALSE" -> "false"
      [] s = "True" -> "true"
      [] s = "None" -> "none"
      [] s = "Enabled" -> "enabled"
      [] OTHER -> s

DisabledSentinels == {"disabled", "excluded", "n", "no", "0", "false"}

-----------------------------------------------------------------------------
(* Context (config.py:208-405) *)

\* set_config without line 229: the overrides are not written over the
\* configuration
set_config_dropped(config, config_override) == config

\* set_config keeping the overrides only: the loaded configuration is lost
set_config_overrides_only(config, config_override) == config_override

\* set_config writing the configuration over the overrides
set_config_file_wins(config, config_override) == Update(config_override, config)

\* Context.set_config: the new configuration with the overrides written over it
set_config(config, config_override) == Update(config, config_override)

\* Context.__init__
Context(work_dir, os_env, environ, config_override) ==
    [config_repo_path |-> NoPath,
     work_dir |-> work_dir,
     os_environ |-> os_env,
     environ |-> environ,
     build_environ |-> EmptyDict,
     config_override |-> config_override,
     config |-> set_config(EmptyDict, config_override)]

\* the filter of get_repo_dict comparing the value without lower-casing it
layers_of_case_sensitive(attrs) ==
    LET layers_dict == Get(attrs, "layers", EmptyDict)
    IN {x \in DOMAIN layers_dict :
            PyStr(layers_dict[x]) \notin DisabledSentinels}

\* the layers of one repository entry that pass the filter of get_repo_dict
layers_of(attrs) ==
    LET layers_dict == Get(attrs, "layers", EmptyDict)
    IN {x \in DOMAIN layers_dict :
            PyLower(PyStr(layers_dict[x])) \notin DisabledSentinels}

\* line 328, `path or ...`: None and the empty string are false
Falsy(path) == path = NoPath \/ path = <<>>

\* get_repo_dict without the `path or` of line 328: a repository with a url
\* always goes under the work directory
repo_of_path_ignored(c, repo, entry) ==
    LET attrs == IF entry.null THEN EmptyDict ELSE entry.attrs
        url == Get(attrs, "url", NoPath)
        name == Get(attrs, "name", repo)
        refspec == Get(attrs, "refspec", PyNone)
        path == Get(attrs, "path", NoPath)
    IN IF url = NoPath
       THEN LET p == IF path = NoPath THEN c.config_repo_path ELSE path
            IN Repo(p, p, PyNone, layers_of(attrs), TRUE)
       ELSE Repo(url, c.work_dir \o <<name>>, refspec, layers_of(attrs), FALSE)

\* the Repo that get_repo_dict builds for entry `repo` of the repos map
repo_of(c, repo, entry) ==
    LET attrs == IF entry.null THEN EmptyDict ELSE entry.attrs
        url == Get(attrs, "url", NoPath)
        name == Get(attrs, "name", repo)
        refspec == Get(attrs, "refspec", PyNone)
        path == Get(attrs, "path", NoPath)
    IN IF url = NoPath
       THEN LET p == IF path = NoPath THEN c.config_repo_path ELSE path
            IN Repo(p, p, PyNone, layers_of(attrs), TRUE)
       ELSE LET p == IF Falsy(path) THEN c.work_dir \o <<name>> ELSE path
            IN Repo(url, p, refspec, layers_of(attrs), FALSE)

\* Context.get_repo_dict: the dictionary it returns
get_repo_dict(c) ==
    LET repo_config_dict == Get(c.config, "repos", EmptyDict)
    IN [repo \in DOMAIN repo_config_dict |->
            repo_of(c, repo, repo_config_dict[repo])]

\* Context.get_repo_dict: the configuration it leaves behind; line 305 stores
\* an empty mapping in place of every null entry
get_repo_dict_config(c) ==
    IF "repos" \notin DOMAIN c.config THEN c.config
    ELSE [c.config EXCEPT !["repos"] =
            [repo \in DOMAIN @ |->
                IF @[repo].null THEN Entry(EmptyDict) ELSE @[repo]]]

\* get_environment applying the build-phase overlay last
get_environment_build_last(c) ==
    LET file_env == Get(c.config, "env", EmptyDict)
        config_env == [var \in DOMAIN file_env |->
                          Get(c.os_environ, var, file_env[var])]
    IN Update(Update(c.environ, config_env), c.build_environ)

\* Context.get_environment
get_environment(c) ==
    LET file_env == Get(c.config, "env", EmptyDict)
        config_env == [var \in DOMAIN file_env |->
                          Get(c.os_environ, var, file_env[var])]
    IN Update(Update(c.build_environ, config_env), c.environ)

-----------------------------------------------------------------------------
(* Context: the accessors of the build parameters (config.py:336-399).     *)
(* They read the process environment os.environ, not the context's copy.   *)

\* str.split() on the values KAS_TARGET takes in the model
split(s) ==
    CASE s = "" -> <<>>
      [] s = " " -> <<>>
      [] s = "img" -> <<"img">>
      [] s = "img  sdk " -> <<"img", "sdk">>
      [] s = "multiconfig:x:img sdk" -> <<"multiconfig:x:img", "sdk">>

\* str.split(':') on the target names of the model
split_colon(i) ==
    CASE i = "multiconfig:x:img" -> <<"multiconfig", "x", "img">>
      [] i = "multiconfig:x:sdk" -> <<"multiconfig", "x", "sdk">>
      [] i = "multiconfig:y:img" -> <<"multiconfig", "y", "img">>
      [] i = "multiconfig-tools" -> <<"multiconfig-tools">>
      [] i = "multiconfigs:z:img" -> <<"multiconfigs", "z", "img">>
      [] OTHER -> <<i>>

\* str.startswith('multiconfig') on the target names of the model
startswith_multiconfig(i) ==
    i \in {"multiconfig:x:img", "multiconfig:x:sdk", "multiconfig:y:img",
           "multiconfig-tools", "multiconfigs:z:img"}

\* Context.get_bitbake_targets: a list, or whatever the configuration holds
\* under target when that is neither absent nor a str
get_bitbake_targets(c, os_env) ==
    LET environ_targets == split(Get(os_env, "KAS_TARGET", ""))
        target == Get(c.config, "target", StrTarget("core-image-minimal"))
    IN IF environ_targets # <<>> THEN ListTarget(environ_targets)
       ELSE IF target.kind = "str" THEN ListTarget(target.words)
       ELSE target

\* Context.get_bitbake_task
get_bitbake_task(c, os_env) ==
    Get(os_env, "KAS_TASK", Get(c.config, "task", "build"))

\* Context.get_machine
get_machine(c, os_env) ==
    Get(os_env, "KAS_MACHINE", Get(c.config, "machine", "qemu"))

\* Context.get_distro
get_distro(c, os_env) ==
    Get(os_env, "KAS_DISTRO", Get(c.config, "distro", "poky"))

\* Context.get_multiconfig: the names it joins with ' ' (in the order of a
\* Python set, which is unspecified), or the exception it raises
get_multiconfig(c, os_env) ==
    LET targets == get_bitbake_targets(c, os_env)
        multi == {j \in DOMAIN targets.words :
                    startswith_multiconfig(targets.words[j])}
    IN IF targets.kind = "none"
       THEN [raised |-> "TypeError", names |-> {}]
       ELSE IF \E j \in multi : Len(split_colon(targets.words[j])) < 2
       THEN [raised |-> "IndexError", names |-> {}]
       ELSE [raised |-> "none",
             names |-> {split_colon(targets.words[j])[2] : j \in multi}]

\* sorted() on the keys of a header section
HeaderOrder == <<"h1", "h2">>

\* Context._get_conf_header: the (key, value) blocks in the order of the keys
get_conf_header(c, header_name) ==
    LET section == Get(c.config, header_name, EmptyDict)
        keys == SelectSeq(HeaderOrder, LAMBDA k : k \in DOMAIN section)
    IN [j \in DOMAIN keys |-> <<keys[j], section[keys[j]]>>]

-----------------------------------------------------------------------------
(* Process environment and the environment helpers of create_context *)

ProxyVars == {"http_proxy", "https_proxy", "ftp_proxy", "no_proxy",
              "HTTP_PROXY", "HTTPS_PROXY", "FTP_PROXY", "NO_PROXY"}
BB_ENV_EXTRAWHITE_ADDITIONALS == {"SSTATE_DIR", "DL_DIR", "TMPDIR"}
MiscVars == {"SSH_AGENT_PID", "SSH_AUTH_SOCK", "SHELL", "TERM",
             "GIT_PROXY_COMMAND"} \cup BB_ENV_EXTRAWHITE_ADDITIONALS

\* get_locale_environ on a debian-like host
get_locale_environ ==
    [LC_ALL |-> "en_US.UTF-8", LANG |-> "en_US.UTF-8", LANGUAGE |-> "en_US:en"]

\* get_proxy_environ / get_misc_environ subscript the bound method
\* os_environ.get (lines 87 and 104): building the first item raises TypeError,
\* and only an empty intersection yields a dictionary (the empty one)
passthrough_raises(os_env, var_names) ==
    DOMAIN os_env \cap var_names # {}

\* process environments of an invocation
OsEnvirons ==
    {[v \in S |-> IF v = "TERM" THEN "xterm" ELSE "key"] :
        S \in SUBSET {"TERM", "SSH_PRIVATE_KEY"}}

-----------------------------------------------------------------------------
(* Include resolver: GlobalIncludes.get_config(repos=known_repo_paths).    *)
(* Any deterministic function: an answer is chosen the first time a map of *)
(* known paths is asked about and is repeated whenever it is asked again.  *)

RepoMaps == UNION {[S -> {NullEntry, UrlEntry}] : S \in SUBSET RepoNames}

FileConfig(repos) == [repos |-> repos, task |-> "cfgtask", machine |-> "m1"]

ResolverOutputs(known) ==
    {[config |-> FileConfig(rm), missing |-> m] :
        rm \in RepoMaps,
        m \in SeqsUpTo(RepoNames \ DOMAIN known, MaxMissing)}

get_config(known) ==
    IF known \in DOMAIN handler THEN {handler[known]}
    ELSE IF Cardinality(DOMAIN handler) < MaxConfigs THEN ResolverOutputs(known)
    ELSE {}

-----------------------------------------------------------------------------
(* Repository provider: libkas.repos_fetch and libkas.repo_checkout *)

NameOrder == <<"a", "b">>

\* the repositories of a dictionary, in dictionary order
values(repo_dict) == SelectSeq(NameOrder, LAMBDA n : n \in DOMAIN repo_dict)

FetchCalls(names) == [i \in 1..Len(names) |-> <<"fetch", names[i]>>]
CheckoutCalls(names) == [i \in 1..Len(names) |-> <<"checkout", names[i]>>]

\* the working copies after the calls cs on the repositories of repo_dict;
\* both are no-ops on a repository with version control disabled
RECURSIVE provide(_, _, _)
provide(d, cs, repo_dict) ==
    IF cs = <<>> THEN d
    ELSE LET r == repo_dict[Head(cs)[2]]
             d1 == IF r.git_operation_disabled THEN d
                   ELSE IF Head(cs)[1] = "fetch"
                        THEN [d EXCEPT !.fetched = @ \cup {r.path}]
                        ELSE [d EXCEPT !.checked_out = @ \cup {r.path}]
         IN provide(d1, Tail(cs), repo_dict)

NoDisk == [fetched |-> {}, checked_out |-> {}, build_dir |-> FALSE,
           ssh_agent |-> FALSE, conf |-> FALSE, home |-> FALSE,
           built |-> FALSE]

-----------------------------------------------------------------------------
(* Commands (libcmds.py:75-204, build.py:103-123) *)

CommandNames == {"setup_dir", "setup_ssh_agent", "repos_fetch",
                 "repos_checkout", "setup_environ", "write_config",
                 "setup_home", "build", "cleanup_ssh_agent"}

\* libkas.get_build_environ: the environment of the build system's init script
BuildEnviron == [PATH |-> "bitbake/bin", BUILDDIR |-> "work/build"]

Outcome(c, d, calls, raised) ==
    [ctx |-> c, disk |-> d, calls |-> calls, raised |-> raised]

\* a command that calls the provider on every repository: it completes, or
\* call number k raises after the calls before it took effect
ProviderOutcomes(c, d, calls) ==
    LET repo_dict == get_repo_dict(c)
        c1 == [c EXCEPT !.config = get_repo_dict_config(c)]
    IN {Outcome(c1, provide(d, calls, repo_dict), calls, "none")}
       \cup {Outcome(c1, provide(d, SubSeq(calls, 1, k - 1), repo_dict),
                     SubSeq(calls, 1, k), "ProviderFailure") :
                k \in 1..Len(calls)}

\* command.execute(context): the outcomes of the command named command_name
execute(command_name, c, d) ==
    CASE command_name = "setup_dir" ->
            {Outcome(c, [d EXCEPT !.build_dir = TRUE], <<>>, "none"),
             Outcome(c, d, <<>>, "OSError")}
      [] command_name = "setup_ssh_agent" ->
            {Outcome(c, [d EXCEPT !.ssh_agent = TRUE], <<>>, "none"),
             Outcome(c, d, <<>>, "CommandError")}
      [] command_name = "cleanup_ssh_agent" ->
            {Outcome(c, [d EXCEPT !.ssh_agent = FALSE], <<>>, "none"),
             Outcome(c, d, <<>>, "CommandError")}
      [] command_name = "repos_fetch" ->
            ProviderOutcomes(c, d, FetchCalls(values(get_repo_dict(c))))
      [] command_name = "repos_checkout" ->
            ProviderOutcomes(c, d, CheckoutCalls(values(get_repo_dict(c))))
      [] command_name = "setup_environ" ->
            {Outcome([c EXCEPT !.build_environ = BuildEnviron], d, <<>>, "none"),
             Outcome(c, d, <<>>, "CommandError")}
      [] command_name = "write_config" ->
            LET c1 == [c EXCEPT !.config = get_repo_dict_config(c)]
            IN {Outcome(c1, [d EXCEPT !.conf = TRUE], <<>>, "none"),
                Outcome(c, d, <<>>, "OSError")}
      [] command_name = "setup_home" ->
            {Outcome([c EXCEPT !.environ = Update(@, [HOME |-> "tmpdir"])],
                     [d EXCEPT !.home = TRUE], <<>>, "none"),
             Outcome(c, d, <<>>, "OSError")}
      [] command_name = "build" ->
            IF "PATH" \notin DOMAIN get_environment(c)
            THEN {Outcome(c, d, <<>>, "KeyError")}
            ELSE {Outcome(c, [d EXCEPT !.built = TRUE], <<>>, "none"),
                  Outcome(c, d, <<>>, "CommandError")}

\* Build.run adding WriteConfig before the repositories are fetched
BuildCommands_config_first(os_env) ==
    <<"setup_dir", "write_config">>
    \o (IF "SSH_PRIVATE_KEY" \in DOMAIN os_env
        THEN <<"setup_ssh_agent">> ELSE <<>>)
    \o <<"repos_fetch", "repos_checkout", "setup_environ", "setup_home",
         "build">>
    \o (IF "SSH_PRIVATE_KEY" \in DOMAIN os_env
        THEN <<"cleanup_ssh_agent">> ELSE <<>>)

\* Build.run adding CleanupSSHAgent whether or not an agent was set up
BuildCommands_cleanup_always(os_env) ==
    <<"setup_dir">>
    \o (IF "SSH_PRIVATE_KEY" \in DOMAIN os_env
        THEN <<"setup_ssh_agent">> ELSE <<>>)
    \o <<"repos_fetch", "repos_checkout", "setup_environ", "write_config",
         "setup_home", "build", "cleanup_ssh_agent">>

\* the command list Build.run assembles (build.py:77-96)
BuildCommands(os_env) ==
    <<"setup_dir">>
    \o (IF "SSH_PRIVATE_KEY" \in DOMAIN os_env
        THEN <<"setup_ssh_agent">> ELSE <<>>)
    \o <<"repos_fetch", "repos_checkout", "setup_environ", "write_config",
         "setup_home", "build">>
    \o (IF "SSH_PRIVATE_KEY" \in DOMAIN os_env
        THEN <<"cleanup_ssh_agent">> ELSE <<>>)

\* command lines of the build plugin: --task, --target, --skip
BuildArgs ==
    [task : {PyNone, "compile"},
     target : {NoTarget, ListTarget(<<"img">>)},
     skip : SUBSET {"repos_fetch", "repos_checkout", "setup_environ", "build"}]

NoArgs == [task |-> PyNone, target |-> NoTarget, skip |-> {}]

-----------------------------------------------------------------------------
(* Build.run up to the call of load_configuration_file (build.py:72-75,    *)
(* config.py:181-203)                                                      *)

\* create_context: the preliminary context, or the TypeError of the helpers
create_context(os_env, config_override) ==
    IF \/ passthrough_raises(os_env, ProxyVars)
       \/ passthrough_raises(os_env, MiscVars)
    THEN [raised |-> "TypeError",
          ctx |-> Context(WorkDir, os_env, EmptyDict, config_override)]
    ELSE [raised |-> "none",
          ctx |-> [Context(WorkDir, os_env, get_locale_environ,
                           config_override)
                   EXCEPT !.config_repo_path = ConfigRepoPath]]

\* repo_paths kept across calls instead of being a fresh local
stale_repo_paths == repo_paths

\* line 123: load_configuration_file starts from no known path
initial_repo_paths == EmptyDict

Build_run ==
    /\ pc = "start"
    /\ LET made == create_context(os_environ,
                                  [target |-> args.target, task |-> args.task])
       IN /\ ctx' = made.ctx
          /\ error' = made.raised
          /\ pc' = IF made.raised = "none" THEN "load" ELSE "failed"
    /\ repo_paths' = initial_repo_paths
    /\ missing_repo_names' = <<>>
    /\ missing_repo_names_old' = <<>>
    /\ last' = [config |-> EmptyDict, missing |-> <<>>]
    /\ passes' = 0
    /\ passCalls' = <<>>
    /\ runCalls' = <<>>
    /\ UNCHANGED <<run, args, os_environ, handler, first, disk, macroVars, ret>>

-----------------------------------------------------------------------------
(* load_configuration_file: one pass of the loop (config.py:128-157) *)

\* line 138: the stall check
stalled(missing, missing_old) == missing = missing_old

\* line 155: the known paths handed to the next resolver call
known_paths(old_paths, repo_dict) ==
    [r \in DOMAIN repo_dict |-> repo_dict[r].path]

\* the round fetching every repository of the configuration
missing_repos_all(missing, repo_dict) == values(repo_dict)

\* lines 146-148: the missing names that the configuration declares
missing_repos(missing, repo_dict) ==
    SelectSeq(missing, LAMBDA n : n \in DOMAIN repo_dict)

Truncate(s, n) == SubSeq(s, 1, Min(Len(s), n))

load_configuration_file ==
    /\ pc = "load"
    /\ \E out \in get_config(repo_paths) :
        LET c1 == [ctx EXCEPT !.config = set_config(out.config, ctx.config_override)]
            missing == out.missing
            repo_dict == get_repo_dict(c1)
            c2 == [c1 EXCEPT !.config = get_repo_dict_config(c1)]
            calls == FetchCalls(missing_repos(missing, repo_dict))
                     \o CheckoutCalls(missing_repos(missing, repo_dict))
        IN /\ handler' = [k \in DOMAIN handler \cup {repo_paths} |->
                            IF k = repo_paths THEN out ELSE handler[k]]
           /\ last' = out
           /\ passes' = Min(passes + 1, MaxPasses)
           /\ missing_repo_names' = missing
           /\ \/ /\ missing = <<>>
                 /\ pc' = "loaded"
                 /\ ctx' = c1
                 /\ passCalls' = <<>>
                 /\ first' = IF run = 1
                             THEN [loaded |-> TRUE, config |-> c1.config,
                                   calls |-> runCalls]
                             ELSE first
                 /\ UNCHANGED <<error, repo_paths, missing_repo_names_old,
                                runCalls, disk>>
              \/ /\ missing # <<>>
                 /\ stalled(missing, missing_repo_names_old)
                 /\ pc' = "failed"
                 /\ error' = "IncludeException"
                 /\ ctx' = c1
                 /\ passCalls' = <<>>
                 /\ UNCHANGED <<repo_paths, missing_repo_names_old, runCalls,
                                first, disk>>
              \/ /\ missing # <<>>
                 /\ ~stalled(missing, missing_repo_names_old)
                 /\ ctx' = c2
                 /\ \/ /\ disk' = provide(disk, calls, repo_dict)
                       /\ passCalls' = calls
                       /\ runCalls' = Truncate(runCalls \o calls, MaxCalls)
                       /\ repo_paths' = known_paths(repo_paths, repo_dict)
                       /\ missing_repo_names_old' = missing
                       /\ UNCHANGED <<pc, error>>
                    \/ \E k \in 1..Len(calls) :
                       /\ disk' = provide(disk, SubSeq(calls, 1, k - 1), repo_dict)
                       /\ passCalls' = SubSeq(calls, 1, k)
                       /\ runCalls' = Truncate(runCalls \o SubSeq(calls, 1, k),
                                               MaxCalls)
                       /\ pc' = "failed"
                       /\ error' = "ProviderFailure"
                       /\ UNCHANGED <<repo_paths, missing_repo_names_old>>
                 /\ UNCHANGED first
    /\ UNCHANGED <<run, args, os_environ, macroVars, ret>>

\* the resolver is asked about more maps of known paths than the model follows
resolver_exhausted ==
    /\ pc = "load"
    /\ get_config(repo_paths) = {}
    /\ pc' = "cutoff"
    /\ UNCHANGED <<error, run, args, os_environ, ctx, engineVars, first, disk,
                   macroVars, ret>>

-----------------------------------------------------------------------------
(* Build.run after create_context returned (build.py:77-100) and Macro.run *)
(* (libcmds.py:50-60)                                                      *)

\* Build.run going on after create_context raised
create_context_ended == pc \in {"loaded", "failed"}

\* build.py:75: the statements after create_context run once it has returned
create_context_returned == pc = "loaded"

Build_run_macro ==
    /\ create_context_returned
    /\ commands' = BuildCommands(os_environ)
    /\ idx' = 1
    /\ executed' = <<>>
    /\ macroCalls' = <<>>
    /\ start' = [ctx |-> ctx, disk |-> disk]
    /\ pc' = "macro"
    /\ UNCHANGED <<error, run, args, os_environ, ctx, engineVars, first, disk, ret>>

\* Macro.run without lines 57-58: no command is skipped
skipped_never(command_name, skip) == FALSE

\* libcmds.py:57: command_name in skip
skipped(command_name, skip) == command_name \in skip

\* Macro.run catching the exception of a command and going on
after_execute_caught(raised) == "macro"

\* line 60: an exception of command.execute leaves Macro.run
after_execute(raised) == IF raised = "none" THEN "macro" ELSE "failed"

\* one iteration of the loop of Macro.run
Macro_run ==
    /\ pc = "macro"
    /\ idx <= Len(commands)
    /\ LET command_name == commands[idx]
       IN \/ /\ skipped(command_name, args.skip)
             /\ idx' = idx + 1
             /\ UNCHANGED <<pc, error, ctx, disk, executed, macroCalls>>
          \/ /\ ~skipped(command_name, args.skip)
             /\ \E o \in execute(command_name, ctx, disk) :
                 /\ executed' = Append(executed, command_name)
                 /\ macroCalls' = macroCalls \o o.calls
                 /\ ctx' = o.ctx
                 /\ disk' = o.disk
                 /\ error' = o.raised
                 /\ pc' = after_execute(o.raised)
                 /\ idx' = IF after_execute(o.raised) = "macro" THEN idx + 1 ELSE idx
    /\ UNCHANGED <<run, args, os_environ, engineVars, first, commands, start, ret>>

\* Macro.run and Build.run return
Macro_return ==
    /\ pc = "macro"
    /\ idx > Len(commands)
    /\ pc' = "done"
    /\ UNCHANGED <<error, run, args, os_environ, ctx, engineVars, first, disk,
                   macroVars, ret>>

\* the tool is invoked again on the same root file and work directory
invoke_again ==
    /\ pc \in {"loaded", "done", "failed"}
    /\ run < MaxRuns
    /\ run' = run + 1
    /\ pc' = "start"
    /\ error' = "none"
    /\ UNCHANGED <<args, os_environ, ctx, engineVars, first, disk, macroVars,
                   ret>>

-----------------------------------------------------------------------------
(* Initial values *)

NoReturn == [op |-> "none", value |-> EmptyDict]

EngineFresh ==
    /\ repo_paths = EmptyDict
    /\ missing_repo_names = <<>>
    /\ missing_repo_names_old = <<>>
    /\ last = [config |-> EmptyDict, missing |-> <<>>]
    /\ passes = 0
    /\ passCalls = <<>>
    /\ runCalls = <<>>
    /\ first = [loaded |-> FALSE, config |-> EmptyDict, calls |-> <<>>]

MacroFresh ==
    /\ commands = <<>>
    /\ idx = 1
    /\ executed = <<>>
    /\ macroCalls = <<>>
    /\ start = [ctx |-> Context(WorkDir, EmptyDict, EmptyDict, EmptyDict),
                disk |-> NoDisk]

\* everything but the inputs of the invocation
Fresh ==
    /\ pc = "start"
    /\ error = "none"
    /\ run = 1
    /\ ctx = Context(WorkDir, EmptyDict, EmptyDict, EmptyDict)
    /\ disk = NoDisk
    /\ ret = NoReturn
    /\ EngineFresh
    /\ MacroFresh

-----------------------------------------------------------------------------
(* The closure engine on any root file: create_context, called once or     *)
(* again on the same root file                                             *)

EngineInit ==
    /\ Fresh
    /\ args \in {a \in BuildArgs : a.skip = {} /\ a.target = NoTarget}
    /\ os_environ = EmptyDict
    /\ handler = EmptyDict

EngineNext ==
    \/ Build_run
    \/ load_configuration_file
    \/ resolver_exhausted
    \/ invoke_again

EngineSpec == EngineInit /\ [][EngineNext]_vars

\* the interpreter keeps executing the loop: a pass that can run does run
EngineLiveSpec ==
    /\ EngineSpec
    /\ WF_vars(load_configuration_file)
    /\ WF_vars(resolver_exhausted)

-----------------------------------------------------------------------------
(* The build action: Build.run on three root files *)

KnownA == [r \in {"a"} |-> WorkDir \o <<"a">>]

Answer(repos, missing) == [config |-> FileConfig(repos), missing |-> missing]

\* every include is local
RootComplete ==
    EmptyDict :> Answer([r \in {"a", "b"} |->
                            IF r = "a" THEN UrlEntry ELSE NullEntry], <<>>)

\* an include from repository a, which the root file declares
RootNeedsA ==
    (EmptyDict :> Answer([r \in {"a"} |-> UrlEntry], <<"a">>))
    @@ (KnownA :> Answer([r \in {"a", "b"} |-> UrlEntry], <<>>))

\* an include from repository b, which no file declares
RootUnresolvable ==
    EmptyDict :> Answer(EmptyDict, <<"b">>)

Init ==
    /\ Fresh
    /\ args \in BuildArgs
    /\ os_environ \in OsEnvirons
    /\ handler \in {RootComplete, RootNeedsA, RootUnresolvable}

Next ==
    \/ Build_run
    \/ load_configuration_file
    \/ Build_run_macro
    \/ Macro_run
    \/ Macro_return

Spec == Init /\ [][Next]_vars

-----------------------------------------------------------------------------
(* A free-standing Macro: any command list, any skip list *)

MacroPool == {"setup_dir", "repos_fetch", "setup_environ", "build"}

LoadedContext ==
    [Context(WorkDir, EmptyDict, get_locale_environ, EmptyDict)
     EXCEPT !.config_repo_path = ConfigRepoPath,
            !.config = RootComplete[EmptyDict].config]

MacroInit ==
    /\ pc = "macro"
    /\ error = "none"
    /\ run = 1
    /\ args \in [task : {PyNone}, target : {NoTarget}, skip : SUBSET MacroPool]
    /\ os_environ = EmptyDict
    /\ ctx = LoadedContext
    /\ handler = EmptyDict
    /\ disk = NoDisk
    /\ ret = NoReturn
    /\ EngineFresh
    /\ commands \in SeqsUpTo(MacroPool, MaxCommands)
    /\ idx = 1
    /\ executed = <<>>
    /\ macroCalls = <<>>
    /\ start = [ctx |-> LoadedContext, disk |-> NoDisk]

MacroNext ==
    \/ Macro_run
    \/ Macro_return

MacroSpec == MacroInit /\ [][MacroNext]_vars

-----------------------------------------------------------------------------
(* Closure engine: stall check, success, termination *)

EngineEnded == pc \in {"loaded", "failed", "cutoff"}

\* C1: a pass whose non-empty missing list holds the same names as the list of
\* the pass before it (in any order, with any repetition) fails with
\* IncludeException, and makes no fetch or checkout call.
C1_StallAsSet ==
    [][(/\ load_configuration_file
        /\ passes >= 1
        /\ missing_repo_names' # <<>>
        /\ Range(missing_repo_names') = Range(missing_repo_names_old))
       => (/\ pc' = "failed"
           /\ error' = "IncludeException"
           /\ passCalls' = <<>>)]_vars

\* C2: load_configuration_file returns normally exactly when its latest
\* resolver call returned an empty missing list; the context then holds that
\* call's configuration with the overrides applied, and the final pass made no
\* fetch or checkout call.
C2_Success ==
    /\ (pc \in {"load", "loaded", "failed", "cutoff"} /\ error # "TypeError")
        => (pc = "loaded" <=> (passes >= 1 /\ last.missing = <<>>))
    /\ pc = "loaded"
        => /\ ctx.config = [k \in DOMAIN last.config \cup DOMAIN ctx.config_override |->
                                IF k \in DOMAIN ctx.config_override
                                THEN ctx.config_override[k]
                                ELSE last.config[k]]
           /\ passCalls = <<>>

\* a root file that was loaded after at least one fetch round, under an
\* override of the task
C2_Witness ==
    /\ pc = "loaded"
    /\ passes >= 2
    /\ runCalls # <<>>
    /\ args.task = "compile"

\* the repository names the resolver has mentioned so far
Mentioned ==
    UNION {DOMAIN handler[k].config.repos \cup Range(handler[k].missing) :
            k \in DOMAIN handler}

\* x is missing in every answer and in the repository map of none
Unresolvable(x) ==
    /\ DOMAIN handler # {}
    /\ \A k \in DOMAIN handler :
        /\ x \in Range(handler[k].missing)
        /\ x \notin DOMAIN handler[k].config.repos

\* C3: when the root file needs a repository that no configuration declares,
\* the engine makes at most one resolver pass more than there are repository
\* names mentioned, and then ends with IncludeException.
C3_BoundedFailure ==
    (pc \in {"load", "failed"} /\ \E x \in RepoNames : Unresolvable(x))
        => /\ passes <= Cardinality(Mentioned) + 1
           /\ (pc = "failed" /\ error # "ProviderFailure"
                => error = "IncludeException")

\* C4: whatever the deterministic resolver answers, an engine whose provider
\* calls return ends: with success, with IncludeException or with a provider
\* failure.
C4_Terminates == (pc = "load") ~> EngineEnded

-----------------------------------------------------------------------------
(* Closure engine: a second invocation *)

\* every repository of the first invocation's configuration is on disk
AllCheckedOut ==
    LET repo_dict == get_repo_dict([ctx EXCEPT !.config = first.config])
    IN \A r \in DOMAIN repo_dict :
        \/ repo_dict[r].git_operation_disabled
        \/ repo_dict[r].path \in disk.fetched \cap disk.checked_out

SecondRun == run >= 2 /\ pc \in {"load", "loaded", "failed", "cutoff"}

\* C5 as stated: the engine, run again when every repository is already
\* fetched and checked out, makes no fetch and no checkout call.
C5_NoCallsAgain ==
    (SecondRun /\ first.loaded /\ AllCheckedOut) => runCalls = <<>>

\* C5 amended: the engine, run again after a successful first run, ends with
\* the same merged configuration and has made the same fetch and checkout
\* calls as the first run.
C5_SameAgain ==
    (SecondRun /\ first.loaded /\ pc = "loaded")
        => /\ ctx.config = first.config
           /\ runCalls = first.calls

C5_Witness ==
    /\ SecondRun
    /\ pc = "loaded"
    /\ first.loaded
    /\ AllCheckedOut
    /\ runCalls # <<>>

-----------------------------------------------------------------------------
(* Macro.run *)

NonSkipped(cmds) == SelectSeq(cmds, LAMBDA n : n \notin args.skip)

MacroFetches == {i \in DOMAIN macroCalls : macroCalls[i][1] = "fetch"}

\* C6: Macro.run calls execute on the commands whose name is not in the skip
\* list, once each and in list order, and on no command whose name is in it:
\* all of them when it returns, the first of them while it runs. With
\* repos_fetch skipped the macro makes no fetch call.
C6_SkipList ==
    /\ IsPrefix(executed, NonSkipped(commands))
    /\ pc = "done" => executed = NonSkipped(commands)
    /\ Range(executed) \cap args.skip = {}
    /\ "repos_fetch" \in args.skip => MacroFetches = {}

C6_Witness ==
    /\ pc = "done"
    /\ args.skip = {"repos_fetch"}
    /\ "repos_fetch" \in Range(commands)
    /\ Len(executed) >= 2

\* what command.execute leaves behind when it does not raise
Completed(command_name, c, d) ==
    CHOOSE o \in execute(command_name, c, d) : o.raised = "none"

\* context and disk after the commands names ran to completion from (c, d)
RECURSIVE Effects(_, _, _)
Effects(names, c, d) ==
    IF names = <<>> THEN [ctx |-> c, disk |-> d]
    ELSE LET o == Completed(Head(names), c, d)
         IN Effects(Tail(names), o.ctx, o.disk)

\* nothing of `before` was undone in (c, d); the command that raised may have
\* fetched or checked out some repositories and read the repository map
Persists(before, c, d) ==
    /\ c.environ = before.ctx.environ
    /\ c.build_environ = before.ctx.build_environ
    /\ c.config \in {before.ctx.config, get_repo_dict_config(before.ctx)}
    /\ before.disk.fetched \subseteq d.fetched
    /\ before.disk.checked_out \subseteq d.checked_out
    /\ [d EXCEPT !.fetched = {}, !.checked_out = {}]
        = [before.disk EXCEPT !.fetched = {}, !.checked_out = {}]

\* C7: when the command at position idx raises, Macro.run ends with that
\* error; the commands before idx that are not skipped were executed once
\* each, the one at idx once, none after it; and what the earlier commands
\* did to the context and the disk is still there.
C7_Failure ==
    /\ error # "none" => pc = "failed"
    /\ pc = "failed"
        => /\ error # "none"
           /\ idx \in DOMAIN commands
           /\ commands[idx] \notin args.skip
           /\ executed = NonSkipped(SubSeq(commands, 1, idx))
           /\ Persists(Effects(NonSkipped(SubSeq(commands, 1, idx - 1)),
                               start.ctx, start.disk), ctx, disk)

\* the third command raised after two commands changed the disk and the context
C7_Witness ==
    /\ pc = "failed"
    /\ idx = 3
    /\ Len(executed) = 3
    /\ disk.build_dir
    /\ ctx.build_environ # EmptyDict

-----------------------------------------------------------------------------
(* The build action *)

BuildOrder == <<"setup_dir", "setup_ssh_agent", "repos_fetch",
                "repos_checkout", "setup_environ", "write_config",
                "setup_home", "build", "cleanup_ssh_agent">>

Position(name) == CHOOSE i \in DOMAIN BuildOrder : BuildOrder[i] = name

\* C8: the commands that execute in a run of the build action do so in the
\* order setup_dir, setup_ssh_agent, repos_fetch, repos_checkout,
\* setup_environ, write_config, setup_home, build, cleanup_ssh_agent.
C8_BuildOrder ==
    /\ Range(executed) \subseteq Range(BuildOrder)
    /\ \A i, j \in DOMAIN executed :
        i < j => Position(executed[i]) < Position(executed[j])

C8_Witness ==
    /\ pc = "done"
    /\ executed = BuildOrder

\* C9: when the closure engine fails in create_context, Build.run assembles
\* no macro, Macro.run is not entered and no command is executed.
C9_NoPipeline ==
    (error = "IncludeException")
        => /\ pc = "failed"
           /\ commands = <<>>
           /\ executed = <<>>
           /\ macroCalls = <<>>
           /\ disk.build_dir = FALSE

C9_Witness ==
    /\ pc = "failed"
    /\ error = "IncludeException"
    /\ passes = 2

-----------------------------------------------------------------------------
(* The Context alone: its mutators and accessors, called in any order *)

EnvVars == {"FOO", "PATH"}

\* environments that give some of the variables the value val
EnvMaps(val) == UNION {[S -> {val}] : S \in SUBSET EnvVars}

\* configurations handed to set_config
CtxConfigs ==
    {EmptyDict} \cup {[env |-> e] : e \in EnvMaps("cfg")}
    \cup {[repos |-> [r \in {"a", "b"} |->
                        IF r = "a" THEN NullEntry ELSE UrlEntry],
           local_conf_header |-> [h2 |-> "x", h1 |-> "y"]]}

Context_set_config ==
    /\ pc = "context"
    /\ \E config \in CtxConfigs :
        ctx' = [ctx EXCEPT !.config = set_config(config, ctx.config_override)]
    /\ ret' = NoReturn
    /\ UNCHANGED <<pc, error, run, args, os_environ, engineVars, first, disk,
                   macroVars>>

Context_set_build_environment ==
    /\ pc = "context"
    /\ \E env \in EnvMaps("bld") : ctx' = [ctx EXCEPT !.build_environ = env]
    /\ ret' = NoReturn
    /\ UNCHANGED <<pc, error, run, args, os_environ, engineVars, first, disk,
                   macroVars>>

Context_update_environment ==
    /\ pc = "context"
    /\ \E env \in EnvMaps("upd") :
        ctx' = [ctx EXCEPT !.environ = Update(@, env)]
    /\ ret' = NoReturn
    /\ UNCHANGED <<pc, error, run, args, os_environ, engineVars, first, disk,
                   macroVars>>

\* the context is constructed and neither the engine nor a macro is running
Ready == pc \in {"context", "loaded"}

Context_get_environment ==
    /\ Ready
    /\ ret' = [op |-> "get_environment", value |-> get_environment(ctx)]
    /\ UNCHANGED <<pc, error, run, args, os_environ, ctx, engineVars, first,
                   disk, macroVars>>

\* get_repo_dict returns the dictionary and leaves the configuration that
\* line 305 wrote
Context_get_repo_dict ==
    /\ Ready
    /\ ret' = [op |-> "get_repo_dict", value |-> get_repo_dict(ctx)]
    /\ ctx' = [ctx EXCEPT !.config = get_repo_dict_config(ctx)]
    /\ UNCHANGED <<pc, error, run, args, os_environ, engineVars, first, disk,
                   macroVars>>

\* get_repos: list(self.get_repo_dict().values())
Context_get_repos ==
    /\ Ready
    /\ LET repo_dict == get_repo_dict(ctx)
           names == values(repo_dict)
       IN ret' = [op |-> "get_repos",
                  value |-> [j \in DOMAIN names |-> repo_dict[names[j]]]]
    /\ ctx' = [ctx EXCEPT !.config = get_repo_dict_config(ctx)]
    /\ UNCHANGED <<pc, error, run, args, os_environ, engineVars, first, disk,
                   macroVars>>

Context_get_bitbake_targets ==
    /\ Ready
    /\ ret' = [op |-> "get_bitbake_targets",
               value |-> get_bitbake_targets(ctx, os_environ)]
    /\ UNCHANGED <<pc, error, run, args, os_environ, ctx, engineVars, first,
                   disk, macroVars>>

Context_get_bitbake_task ==
    /\ Ready
    /\ ret' = [op |-> "get_bitbake_task",
               value |-> get_bitbake_task(ctx, os_environ)]
    /\ UNCHANGED <<pc, error, run, args, os_environ, ctx, engineVars, first,
                   disk, macroVars>>

Context_get_machine ==
    /\ Ready
    /\ ret' = [op |-> "get_machine", value |-> get_machine(ctx, os_environ)]
    /\ UNCHANGED <<pc, error, run, args, os_environ, ctx, engineVars, first,
                   disk, macroVars>>

Context_get_distro ==
    /\ Ready
    /\ ret' = [op |-> "get_distro", value |-> get_distro(ctx, os_environ)]
    /\ UNCHANGED <<pc, error, run, args, os_environ, ctx, engineVars, first,
                   disk, macroVars>>

Context_get_multiconfig ==
    /\ Ready
    /\ ret' = [op |-> "get_multiconfig",
               value |-> get_multiconfig(ctx, os_environ)]
    /\ UNCHANGED <<pc, error, run, args, os_environ, ctx, engineVars, first,
                   disk, macroVars>>

\* get_bblayers_conf_header and get_local_conf_header
Context_get_conf_header ==
    /\ Ready
    /\ \E header_name \in {"bblayers_conf_header", "local_conf_header"} :
        ret' = [op |-> header_name, value |-> get_conf_header(ctx, header_name)]
    /\ UNCHANGED <<pc, error, run, args, os_environ, ctx, engineVars, first,
                   disk, macroVars>>

ContextInit ==
    /\ pc = "context"
    /\ error = "none"
    /\ run = 1
    /\ args = NoArgs
    /\ os_environ \in EnvMaps("shell")
    /\ \E environ \in EnvMaps("ovl"),
          config_override \in {EmptyDict, [target |-> NoTarget, task |-> PyNone]} :
        ctx = [Context(WorkDir, os_environ, environ, config_override)
               EXCEPT !.config_repo_path = ConfigRepoPath]
    /\ handler = EmptyDict
    /\ disk = NoDisk
    /\ ret = NoReturn
    /\ EngineFresh
    /\ MacroFresh

ContextNext ==
    \/ Context_set_config
    \/ Context_set_build_environment
    \/ Context_update_environment
    \/ Context_get_environment
    \/ Context_get_repo_dict
    \/ Context_get_repos
    \/ Context_get_bitbake_targets
    \/ Context_get_bitbake_task
    \/ Context_get_machine
    \/ Context_get_distro
    \/ Context_get_multiconfig
    \/ Context_get_conf_header

ContextSpec == ContextInit /\ [][ContextNext]_vars

-----------------------------------------------------------------------------
(* The accessors on the contexts that create_context produces: Build.run   *)
(* on root files without repository includes                               *)

\* longest target list of a configuration file
MaxTargets == 2

TargetWords == {"img", "multiconfig:x:img", "multiconfig:x:sdk",
                "multiconfig:y:img", "multiconfig-tools",
                "multiconfigs:z:img"}

\* configuration files that declare the keys S and the target t
ScalarConfig(S, t) ==
    [k \in S \cup (IF t = NoTarget THEN {} ELSE {"target"}) |->
        CASE k = "task" -> "cfgtask"
          [] k = "machine" -> "m1"
          [] k = "distro" -> "d1"
          [] k = "target" -> t]

ScalarConfigs ==
    {ScalarConfig(S, t) :
        S \in SUBSET {"task", "machine", "distro"},
        t \in {NoTarget, StrTarget("img"), ListTarget(<<"img", "sdk">>)}}

TargetConfigs ==
    {[target |-> ListTarget(ws)] : ws \in SeqsUpTo(TargetWords, MaxTargets)}
    \cup {[target |-> StrTarget(w)] : w \in TargetWords}

\* attributes of a repository entry: url, path, name, refspec
EntryAttrs(S, path) ==
    [k \in S \cup (IF path = NoPath THEN {} ELSE {"path"}) |->
        CASE k = "url" -> <<"git:", "host", "repo">>
          [] k = "name" -> "nm"
          [] k = "refspec" -> "master"
          [] k = "path" -> path]

AttrEntries ==
    {Entry(EntryAttrs(S, path)) :
        S \in SUBSET {"url", "name", "refspec"},
        path \in {NoPath, <<>>, <<"custom">>}}

LayerValues ==
    {YamlStr(v) : v \in {"enabled", "disabled", "Disabled", "DISABLED",
                         "excluded", "Excluded", "n", "N", "no", "No", "NO",
                         "0", "1", "false", "False", "FALSE", "true", "yes",
                         "none", ""}}
    \cup {YamlInt0, YamlInt1, YamlFalse, YamlTrue, YamlNull}

LayerDicts ==
    {[l \in {"l1"} |-> v] : v \in LayerValues}
    \cup {[a |-> YamlStr("enabled"), b |-> YamlStr("disabled"), c |-> v] :
            v \in {YamlInt0, YamlStr("0")}}

LayerEntries ==
    {Entry([url |-> <<"git:", "host", "repo">>, layers |-> ld]) :
        ld \in LayerDicts}
    \cup {Entry([layers |-> ld]) : ld \in LayerDicts}

RepoConfigs ==
    {[repos |-> [r \in {"a"} |-> e]] :
        e \in {NullEntry} \cup AttrEntries \cup LayerEntries}
    \cup {[repos |-> [r \in {"a", "b"} |->
                        IF r = "a" THEN NullEntry ELSE UrlEntry]],
           [repos |-> EmptyDict]}

HeaderConfigs ==
    {[local_conf_header |-> [h2 |-> "x", h1 |-> "y"]],
     [bblayers_conf_header |-> [h1 |-> "z"]]}

\* process environments that set some of the KAS_ variables
KasEnvirons(targets) ==
    {[v \in S \cup (IF t = PyNone THEN {} ELSE {"KAS_TARGET"}) |->
        CASE v = "KAS_TASK" -> "envtask"
          [] v = "KAS_MACHINE" -> "envmachine"
          [] v = "KAS_DISTRO" -> "envdistro"
          [] v = "KAS_TARGET" -> t] :
        S \in SUBSET {"KAS_TASK", "KAS_MACHINE", "KAS_DISTRO"},
        t \in targets}

KasTargets == {PyNone, " ", "img  sdk ", "multiconfig:x:img sdk"}

\* command lines with --target given once or several times
TargetArgs ==
    {[task |-> PyNone, target |-> ListTarget(ws), skip |-> {}] :
        ws \in SeqsUpTo(TargetWords, MaxTargets) \ {<<>>}}

\* command line, process environment and root file of an invocation
AccessInputs ==
    ({a \in BuildArgs : a.skip = {}} \X KasEnvirons(KasTargets)
        \X ScalarConfigs)
    \cup ({a \in BuildArgs : a.skip = {} /\ a.task = PyNone}
            \X {e \in KasEnvirons(KasTargets) :
                    DOMAIN e \subseteq {"KAS_TARGET"}}
            \X TargetConfigs)
    \cup (TargetArgs
            \X {e \in KasEnvirons(KasTargets) :
                    DOMAIN e \subseteq {"KAS_TARGET"}}
            \X {EmptyDict, [target |-> StrTarget("img")]})
    \cup ({NoArgs} \X {EmptyDict} \X (RepoConfigs \cup HeaderConfigs))

AccessInit ==
    /\ Fresh
    /\ \E in \in AccessInputs :
        /\ args = in[1]
        /\ os_environ = in[2]
        /\ handler = (EmptyDict :> [config |-> in[3], missing |-> <<>>])

AccessNext ==
    \/ Build_run
    \/ load_configuration_file
    \/ Context_get_environment
    \/ Context_get_repo_dict
    \/ Context_get_repos
    \/ Context_get_bitbake_targets
    \/ Context_get_bitbake_task
    \/ Context_get_machine
    \/ Context_get_distro
    \/ Context_get_multiconfig
    \/ Context_get_conf_header

AccessSpec == AccessInit /\ [][AccessNext]_vars

\* C10: get_environment gives every variable the value of the highest layer
\* that defines it: the explicit overlay, else the configuration's env entry
\* (the process environment's value of that name if there is one, the
\* configured value otherwise), else the build-phase overlay.
C10_Precedence ==
    ret.op = "get_environment"
        => LET env == ret.value
               file_env == IF "env" \in DOMAIN ctx.config
                           THEN ctx.config["env"] ELSE EmptyDict
           IN /\ DOMAIN env = DOMAIN ctx.environ \cup DOMAIN file_env
                                \cup DOMAIN ctx.build_environ
              /\ \A v \in DOMAIN env :
                    env[v] = IF v \in DOMAIN ctx.environ THEN ctx.environ[v]
                             ELSE IF v \in DOMAIN file_env
                             THEN IF v \in DOMAIN ctx.os_environ
                                  THEN ctx.os_environ[v]
                                  ELSE file_env[v]
                             ELSE ctx.build_environ[v]

\* FOO is configured, set in the process environment and in the build-phase
\* overlay, and not in the explicit overlay; PATH is configured only
C10_Witness ==
    /\ ret.op = "get_environment"
    /\ "env" \in DOMAIN ctx.config
    /\ DOMAIN ctx.config["env"] = {"FOO", "PATH"}
    /\ DOMAIN ctx.os_environ = {"FOO"}
    /\ DOMAIN ctx.build_environ = {"FOO", "PATH"}
    /\ DOMAIN ctx.environ = {}
    /\ ret.value = [FOO |-> "shell", PATH |-> "cfg"]

-----------------------------------------------------------------------------
(* Context: overrides *)

\* C11: after construction and after every set_config call, every key of the
\* overrides given at creation is in the merged configuration with the
\* override's value, whatever the loaded configuration holds for that key.
C11_OverridePermanent ==
    \A k \in DOMAIN ctx.config_override :
        /\ k \in DOMAIN ctx.config
        /\ ctx.config[k] = ctx.config_override[k]

\* the second pass has loaded a configuration whose task is not the task of
\* the command line
C11_Witness ==
    /\ pc = "load"
    /\ passes >= 2
    /\ ctx.config_override["task"] = "compile"
    /\ last.config["task"] = "cfgtask"
    /\ ctx.config["task"] = "compile"

-----------------------------------------------------------------------------
(* Context: task, machine, distro and targets *)

\* the configuration file as the resolver merged it
FileValues == handler[EmptyDict].config

\* the value of an environment variable if it is set, else the value of a
\* command-line option if it was given, else the configuration file's value if
\* the file declares the key, else the default
Resolved(var_name, option, key, default) ==
    IF var_name \in DOMAIN os_environ THEN os_environ[var_name]
    ELSE IF option # PyNone THEN option
    ELSE IF key \in DOMAIN FileValues THEN FileValues[key]
    ELSE default

\* C12: on a context that create_context produced, get_bitbake_task,
\* get_machine and get_distro return the value of KAS_TASK / KAS_MACHINE /
\* KAS_DISTRO if it is set, else the configuration file's value if the file
\* declares one, else build / qemu / poky; also when the build action was
\* given no --task option.
C12_Resolution ==
    /\ ret.op = "get_bitbake_task"
        => ret.value = Resolved("KAS_TASK", args.task, "task", "build")
    /\ ret.op = "get_machine"
        => ret.value = Resolved("KAS_MACHINE", PyNone, "machine", "qemu")
    /\ ret.op = "get_distro"
        => ret.value = Resolved("KAS_DISTRO", PyNone, "distro", "poky")

\* the whitespace-separated words of KAS_TARGET, none when it is not set
EnvironWords ==
    IF "KAS_TARGET" \in DOMAIN os_environ THEN split(os_environ["KAS_TARGET"])
    ELSE <<>>

\* C13: on a context that create_context produced, get_bitbake_targets
\* returns a list of target names: the words of KAS_TARGET when it is set
\* and holds a word, else the target of the configuration (of --target when
\* it was given, of the file otherwise) with a single name made a list of
\* one, else [core-image-minimal] when no target is declared.
C13_Targets ==
    ret.op = "get_bitbake_targets"
        => /\ ret.value.kind = "list"
           /\ ret.value.words =
                IF EnvironWords # <<>> THEN EnvironWords
                ELSE IF args.target # NoTarget THEN args.target.words
                ELSE IF "target" \in DOMAIN FileValues
                     THEN FileValues["target"].words
                ELSE <<"core-image-minimal">>

-----------------------------------------------------------------------------
(* Context: what the accessors and the mutators change *)

\* C14: the read accessors (get_repo_dict, get_repos, get_environment,
\* get_bitbake_targets, get_bitbake_task, get_machine, get_distro,
\* get_multiconfig, the conf headers) leave the merged configuration and
\* every environment overlay as they were, also when a repository entry is
\* null or empty; update_environment changes the explicit overlay only and
\* set_build_environment the build-phase overlay only.
C14_Frame ==
    [][/\ (\/ Context_get_repo_dict
           \/ Context_get_repos
           \/ Context_get_environment
           \/ Context_get_bitbake_targets
           \/ Context_get_bitbake_task
           \/ Context_get_machine
           \/ Context_get_distro
           \/ Context_get_multiconfig
           \/ Context_get_conf_header) => ctx' = ctx
       /\ Context_update_environment
            => ctx' = [ctx EXCEPT !.environ = ctx'.environ]
       /\ Context_set_build_environment
            => ctx' = [ctx EXCEPT !.build_environ = ctx'.build_environ]]_vars

-----------------------------------------------------------------------------
(* Context: repository descriptors *)

\* the layer values that disable a layer, spelled out
DisablingValues ==
    {YamlStr(v) : v \in {"disabled", "Disabled", "DISABLED", "excluded",
                         "Excluded", "n", "N", "no", "No", "NO", "0", "false",
                         "False", "FALSE"}}
    \cup {YamlInt0, YamlFalse}

\* the layers mapping the configuration file gives repository r
FileLayers(r) ==
    LET entry == FileValues["repos"][r]
    IN IF ~entry.null /\ "layers" \in DOMAIN entry.attrs
       THEN entry.attrs["layers"] ELSE EmptyDict

\* C15: the layers of the descriptor of a repository entry are exactly the
\* keys of its layers mapping whose value, as a lower-cased string, is none of
\* disabled, excluded, n, no, 0, false; {a: enabled, b: disabled, c: 0} gives
\* exactly {a}.
C15_LayerFilter ==
    ret.op = "get_repo_dict"
        => \A r \in DOMAIN ret.value :
            ret.value[r].layers =
                {x \in DOMAIN FileLayers(r) :
                    FileLayers(r)[x] \notin DisablingValues}

\* the descriptor of the entry with layers {a: enabled, b: disabled, c: 0}
C15_Witness ==
    /\ ret.op = "get_repo_dict"
    /\ "a" \in DOMAIN ret.value
    /\ FileLayers("a") = [a |-> YamlStr("enabled"), b |-> YamlStr("disabled"),
                          c |-> YamlInt0]
    /\ ret.value["a"].layers = {"a"}

\* the attributes the configuration file gives repository r
FileAttrs(r) ==
    LET entry == FileValues["repos"][r]
    IN IF entry.null THEN EmptyDict ELSE entry.attrs

\* the descriptor d of repository r has version control disabled exactly when
\* the entry has no url, and its path is the entry's path if `given`, else
\* the configuration's repository path (no url) or <work_dir>/<name> (url)
Descriptor(r, d, given) ==
    LET attrs == FileAttrs(r)
        name == IF "name" \in DOMAIN attrs THEN attrs["name"] ELSE r
    IN /\ d.git_operation_disabled <=> "url" \notin DOMAIN attrs
       /\ "url" \notin DOMAIN attrs
            => d.path = IF "path" \in DOMAIN attrs THEN attrs["path"]
                        ELSE ctx.config_repo_path
       /\ "url" \in DOMAIN attrs
            => d.path = IF given THEN attrs["path"] ELSE ctx.work_dir \o <<name>>

\* C19 as stated: the descriptor of an entry has version control disabled iff
\* the entry has no url; then its path is the entry's path if given, else the
\* configuration file's repository path; with a url its path is the entry's
\* path if given, else <work_dir>/<name>.
C19_Descriptor ==
    ret.op = "get_repo_dict"
        => \A r \in DOMAIN ret.value :
            Descriptor(r, ret.value[r], "path" \in DOMAIN FileAttrs(r))

\* C19 amended: as stated, but with a url the entry's path counts as given
\* only when it is not the empty string.
C19_DescriptorNonEmpty ==
    ret.op = "get_repo_dict"
        => \A r \in DOMAIN ret.value :
            Descriptor(r, ret.value[r],
                       /\ "path" \in DOMAIN FileAttrs(r)
                       /\ FileAttrs(r)["path"] # <<>>)

\* the descriptors of a null entry and of an entry with a url and no path
C19_Witness ==
    /\ ret.op = "get_repo_dict"
    /\ DOMAIN ret.value = {"a", "b"}
    /\ FileValues["repos"]["a"].null
    /\ ret.value["a"].git_operation_disabled
    /\ ret.value["a"].path = ConfigRepoPath
    /\ DOMAIN FileAttrs("b") = {"url"}
    /\ ~ret.value["b"].git_operation_disabled
    /\ ret.value["b"].path = <<"work", "b">>

-----------------------------------------------------------------------------
(* Context: get_multiconfig *)

\* the targets of the form multiconfig:<name>:<real-target>, with their <name>
MulticonfigName ==
    [w \in {"multiconfig:x:img", "multiconfig:x:sdk", "multiconfig:y:img"} |->
        IF w = "multiconfig:y:img" THEN "y" ELSE "x"]

\* C20: for every list of resolved targets, get_multiconfig joins exactly the
\* distinct <name> parts of the targets of the form
\* multiconfig:<name>:<real-target>, each once; a target of another form adds
\* nothing and raises no error, and the result is empty when no target has
\* that form.
C20_Multiconfig ==
    LET targets == get_bitbake_targets(ctx, os_environ)
    IN (ret.op = "get_multiconfig" /\ targets.kind = "list")
        => /\ ret.value.raised = "none"
           /\ ret.value.names =
                {MulticonfigName[w] :
                    w \in Range(targets.words) \cap DOMAIN MulticonfigName}

-----------------------------------------------------------------------------
(* Closure engine: the known paths and the fetch rounds *)

\* C16: every repository name that is a key of the known paths handed to the
\* resolver is on disk: its descriptor has version control disabled, or the
\* engine has fetched and checked it out.
C16_KnownOnDisk ==
    (pc = "load" /\ passes >= 1)
        => \A r \in DOMAIN repo_paths :
            \/ get_repo_dict(ctx)[r].git_operation_disabled
            \/ repo_paths[r] \in disk.fetched \cap disk.checked_out

\* C17: over the passes of one run a name that is known stays known, with
\* the same path.
C17_Monotone ==
    [][load_configuration_file
        => \A r \in DOMAIN repo_paths :
            /\ r \in DOMAIN repo_paths'
            /\ repo_paths'[r] = repo_paths[r]]_vars

CallNames(kind) ==
    {passCalls[i][2] : i \in {j \in DOMAIN passCalls : passCalls[j][1] = kind}}

\* the missing names of the latest pass that its configuration declares
Wanted ==
    Range(missing_repo_names) \cap DOMAIN Get(ctx.config, "repos", EmptyDict)

\* C18: a pass that neither succeeds nor stalls fetches exactly the missing
\* names that its configuration declares, skipping the others; every
\* checkout of the pass comes after all the fetches and is of one of those
\* names; and the resolver is called again only when all of them are checked
\* out.
C18_FetchRound ==
    /\ \A i, j \in DOMAIN passCalls :
        (passCalls[i][1] = "fetch" /\ passCalls[j][1] = "checkout") => i < j
    /\ CallNames("fetch") \subseteq Wanted
    /\ CallNames("checkout") \subseteq Wanted
    /\ CallNames("checkout") # {} => CallNames("fetch") = Wanted
    /\ (pc = "load" /\ passes >= 1)
        => /\ CallNames("fetch") = Wanted
           /\ CallNames("checkout") = Wanted

\* a pass with two missing names, one that the configuration declares and one
\* that it does not
C18_Witness ==
    /\ pc = "load"
    /\ passes >= 1
    /\ missing_repo_names = <<"b", "a">>
    /\ DOMAIN ctx.config["repos"] = {"a"}
    /\ passCalls = <<<<"fetch", "a">>, <<"checkout", "a">>>>

-----------------------------------------------------------------------------
(* The build action: the SSH agent *)

\* C21: cleanup_ssh_agent is in the macro of the build action exactly when
\* setup_ssh_agent is; it is executed only after every command before it
\* that is not skipped completed without error; and when another command of
\* the macro fails, cleanup_ssh_agent is not executed in that run.
C21_Teardown ==
    /\ commands # <<>>
        => ("cleanup_ssh_agent" \in Range(commands)
                <=> "setup_ssh_agent" \in Range(commands))
    /\ "cleanup_ssh_agent" \in Range(executed)
        => /\ executed[Len(executed)] = "cleanup_ssh_agent"
           /\ SubSeq(executed, 1, Len(executed) - 1)
                = NonSkipped(SubSeq(commands, 1, Len(commands) - 1))
           /\ error = "none" \/ idx = Len(commands)
    /\ (pc = "failed" /\ commands # <<>> /\ commands[idx] # "cleanup_ssh_agent")
        => "cleanup_ssh_agent" \notin Range(executed)

\* the build tool failed after the agent was set up: the run ended without
\* cleanup_ssh_agent and the agent is still there
C21_Witness ==
    /\ pc = "failed"
    /\ commands # <<>>
    /\ commands[idx] = "build"
    /\ error = "CommandError"
    /\ "setup_ssh_agent" \in Range(executed)
    /\ "cleanup_ssh_agent" \in Range(commands)
    /\ "cleanup_ssh_agent" \notin Range(executed)
    /\ disk.ssh_agent

-----------------------------------------------------------------------------
(* Closure engine: the configuration of the context in every pass *)

\* the resolver's configuration with the overrides written over it
BestEffort(config, config_override) ==
    [k \in DOMAIN config \cup DOMAIN config_override |->
        IF k \in DOMAIN config_override THEN config_override[k] ELSE config[k]]

\* the same configuration, but for a null repository entry that became an
\* empty one
SameButNulls(c1, c2) ==
    /\ DOMAIN c1 = DOMAIN c2
    /\ \A k \in DOMAIN c1 \ {"repos"} : c1[k] = c2[k]
    /\ "repos" \in DOMAIN c1
        => /\ DOMAIN c1["repos"] = DOMAIN c2["repos"]
           /\ \A r \in DOMAIN c1["repos"] :
                c1["repos"][r].attrs = c2["repos"][r].attrs

\* where the provider puts the repositories that config declares with a url
DeclaredPaths(config) ==
    {WorkDir \o <<r>> :
        r \in {n \in DOMAIN config["repos"] : ~config["repos"][n].null}}

\* C22: every pass puts the resolver's configuration of that pass, with the
\* overrides applied, in the context before the success and stall checks:
\* the repositories fetched and checked out in the pass are those of that
\* configuration, and when the engine fails with IncludeException the
\* context holds the configuration of the failing pass, not the one it had
\* before the resolution.
C22_BestEffort ==
    [][load_configuration_file
        => /\ SameButNulls(ctx'.config,
                           BestEffort(last'.config, ctx.config_override))
           /\ {passCalls'[i][2] : i \in DOMAIN passCalls'}
                \subseteq DOMAIN last'.config["repos"]
           /\ (disk'.fetched \ disk.fetched) \cup
              (disk'.checked_out \ disk.checked_out)
                \subseteq DeclaredPaths(last'.config)
           /\ error' = "IncludeException"
                => /\ ctx'.config
                        = BestEffort(last'.config, ctx.config_override)
                   /\ ctx'.config # ctx.config_override]_vars

\* the engine failed in a pass whose configuration is not the one of the
\* pass before; the context holds it, with the task of the command line
C22_Witness ==
    /\ pc = "failed"
    /\ error = "IncludeException"
    /\ passes >= 2
    /\ last.config # handler[EmptyDict].config
    /\ last.config["repos"] # EmptyDict
    /\ ctx.config["repos"] = last.config["repos"]
    /\ ctx.config["task"] = "compile"

====
